---- MODULE Spec2Model ----
(***************************************************************************)
(* Streaming chat client: the SocketService connection manager and event   *)
(* router (services/socket.ts), and the streaming Chat component           *)
(* (components/Chat.tsx) with its HTTP fallback.                            *)
(*                                                                         *)
(* Texts are sequences of symbols; a symbol is one character or one fixed  *)
(* phrase of the program.                                                  *)
(***************************************************************************)
EXTENDS Integers, Sequences, FiniteSets, TLC

\* ---------------------------------------------------------------- bounds
MaxMsgs == 4          \* longest conversation explored by Spec and SpecConn
LongMsgs == 5         \* longest conversation explored by SpecLong
BeatMsgs == 2         \* longest conversation explored by SpecBeat
FileMsgs == 3         \* longest conversation explored by SpecFiles
MaxClock == 2         \* milliseconds the clock advances
MaxText == 2          \* most token fragments appended to one streaming reply
MaxMounts == 2        \* times the Chat component is mounted
MaxTimers == 2        \* reconnect timers pending at once
MaxAttempts == 7      \* largest reconnectAttempts explored
MaxFiles == 1         \* files selected for one submission
PairFiles == 2        \* files selected where their order is observed
MaxDrops == 6         \* involuntary drops in a row without a successful connect

\* ------------------------------------------------------ program constants
maxReconnectAttempts == 5
maxFiles == 5

NULL == <<>>          \* null / undefined / '' : every falsy text
Missing == <<"undefined">>   \* the value of a field the payload does not have

ErrPrefix == <<"Sorry, I encountered an error: ">>
TryAgain == <<"Please try again later.">>
UnknownError == <<"Unknown error occurred">>
FailedToProcess == <<"Failed to process your message">>
DefaultPrompt == <<"What do you see in this image?">>
TextModel == <<"gemini-2.0-flash">>
VisionModel == <<"gemini-2.0-pro-vision">>

ChatEvents == {"chat_start", "chat_token", "chat_complete", "chat_error", "chat_image"}
Events == ChatEvents \cup {"heartbeat"}
InvoluntaryReasons == {"io server disconnect", "transport close"}
RemoteReasons == InvoluntaryReasons \cup {"transport error"}

\* ------------------------------------------------------ environment inputs
Tokens == {<<"a">>, <<"b">>}
ErrorMessages == {<<"rate limited">>, NULL}
CompleteModels == {<<"gemini-1.5-pro">>}
ImageUrls == {<<"gen.png">>}
InputValues == {<<>>, <<" ">>, <<"h">>, <<" ", "h", " ">>}
HttpResponses == {<<"r">>}
HttpErrors == {<<"Network error: Failed to fetch">>}
FileKinds == {"image", "document"}

VARIABLES
  \* SocketService
  connected, registeredEvents, reconnectAttempts,
  \* the socket.io Socket the service owns
  sock, listeners, timers,
  \* Chat component
  mounted, gen, messages, isLoading, error, isSocketConnected, useStreaming,
  upload, httpPending,
  \* observation of the run
  outbox, last, cleared, dropsInRow, scheduledInRow, limit,
  \* the clock read by Date.now()
  now,
  \* the file selection, the object URLs created and not revoked, and the
  \* number of files processed so far
  selectedFiles, objectURLs, fileSeq

svcVars == <<connected, registeredEvents, reconnectAttempts, sock, listeners, timers>>
chatVars == <<mounted, gen, messages, isLoading, error, isSocketConnected, useStreaming,
              upload, httpPending>>
obsVars == <<outbox, last, cleared, dropsInRow, scheduledInRow, limit, now>>
fileVars == <<selectedFiles, objectURLs, fileSeq>>
vars == <<svcVars, chatVars, obsVars, fileVars>>

\* ------------------------------------------------------------- SocketService
Svc == [connected |-> connected, registeredEvents |-> registeredEvents,
        reconnectAttempts |-> reconnectAttempts, sock |-> sock,
        listeners |-> listeners, timers |-> timers]

SetSvc(s) ==
  /\ connected' = s.connected
  /\ registeredEvents' = s.registeredEvents
  /\ reconnectAttempts' = s.reconnectAttempts
  /\ sock' = s.sock
  /\ listeners' = s.listeners
  /\ timers' = s.timers

Min(a, b) == IF a < b THEN a ELSE b

\* Socket.connect() of socket.io-client: opens the transport unless it is
\* already open or opening.
socketConnect(st) == IF st = "closed" THEN "opening" ELSE st

\* The listeners initSocket attaches to application events: the heartbeat logger.
initSocket == [e \in Events |-> IF e = "heartbeat" THEN <<0>> ELSE <<>>]

\* Mutant of onConnect: the counter is not reset.
onConnectKeepingCount(s) == [s EXCEPT !.connected = TRUE]

onConnect(s) == [s EXCEPT !.connected = TRUE, !.reconnectAttempts = 0]

\* Mutant of reconnectDelay: the same delay whatever the attempt.
reconnectDelayConstant(attempts) == 1000

reconnectDelay(attempts) == 1000 * Min(attempts + 1, 5)

onDisconnect(s, reason) ==
  [s EXCEPT !.connected = FALSE,
            !.timers = IF reason \in InvoluntaryReasons
                          /\ s.reconnectAttempts < maxReconnectAttempts
                       THEN Append(@, reconnectDelay(s.reconnectAttempts))
                       ELSE @,
            !.registeredEvents = {}]

onConnectError(s) == [s EXCEPT !.connected = FALSE]

\* The setTimeout callback of the disconnect handler.
reconnectTimer(s) ==
  [s EXCEPT !.reconnectAttempts = @ + 1, !.sock = socketConnect(@)]

isConnected(s) == s.connected

\* Mutant of connect: the handshake is started whatever the state.
connectAlways(s) == [s EXCEPT !.sock = "opening"]

connect(s) == IF ~s.connected THEN [s EXCEPT !.sock = socketConnect(@)] ELSE s

\* socket.disconnect() closes the transport and emits 'disconnect' with reason
\* 'io client disconnect' before it returns; the service then clears
\* registeredEvents.  Listeners attached with socket.on stay attached.
disconnect(s) ==
  IF s.connected
  THEN [onDisconnect([s EXCEPT !.sock = "closed"], "io client disconnect")
          EXCEPT !.registeredEvents = {}]
  ELSE s

registerEvent(s, event, cb) ==
  [s EXCEPT !.listeners[event] =
               Append(IF event \in s.registeredEvents THEN <<>> ELSE @, cb),
            !.registeredEvents = @ \cup {event}]

onChatStart(s, cb) == registerEvent(s, "chat_start", cb)
onChatToken(s, cb) == registerEvent(s, "chat_token", cb)
onChatComplete(s, cb) == registerEvent(s, "chat_complete", cb)
onChatError(s, cb) == registerEvent(s, "chat_error", cb)
onChatImage(s, cb) == registerEvent(s, "chat_image", cb)
\* Mutant of onHeartbeat: the callback is registered for another event.
onHeartbeatMisrouted(s, cb) == registerEvent(s, "chat_start", cb)

onHeartbeat(s, cb) == registerEvent(s, "heartbeat", cb)

\* ------------------------------------------------------------ Chat component
\* A message created now: the id is Date.now() for a user message and
\* Date.now() + 1 for every other one.
Message(text, sender, streaming, files) ==
  [id |-> IF sender = "user" THEN now ELSE now + 1, text |-> text,
   sender |-> sender, isStreaming |-> streaming, model |-> NULL, files |-> files]

IsSpace(ch) == ch = " "

RECURSIVE TrimStart(_)
TrimStart(t) == IF t # <<>> /\ IsSpace(Head(t)) THEN TrimStart(Tail(t)) ELSE t

RECURSIVE TrimEnd(_)
TrimEnd(t) ==
  IF t # <<>> /\ IsSpace(t[Len(t)]) THEN TrimEnd(SubSeq(t, 1, Len(t) - 1)) ELSE t

\* String.prototype.trim
Trim(t) == TrimEnd(TrimStart(t))

Falsy(v) == v = NULL \/ v = Missing

\* a || b on texts
OrElse(a, b) == IF ~Falsy(a) THEN a ELSE b

\* text + v : string concatenation turns undefined into the text 'undefined'
Concat(text, v) == text \o (IF v = Missing THEN <<"undefined">> ELSE v)

\* a property set from a field: undefined leaves it absent
Field(v) == IF v = Missing THEN NULL ELSE v

\* Mutant of chatTokenHandler: the isStreaming test is dropped.
chatTokenHandlerUnguarded(prev, token) ==
  IF Len(prev) > 0
  THEN [prev EXCEPT ![Len(prev)].text = @ \o token]
  ELSE prev

\* onChatToken callback of Chat: setMessages(prev => ...)
chatTokenHandler(prev, token) ==
  IF Len(prev) > 0 /\ prev[Len(prev)].isStreaming
  THEN [prev EXCEPT ![Len(prev)].text = Concat(@, token)]
  ELSE prev

\* Mutant of chatCompleteHandler: the last message is updated whatever its
\* isStreaming flag.
chatCompleteHandlerUnguarded(prev, model) ==
  IF Len(prev) > 0
  THEN [prev EXCEPT ![Len(prev)].isStreaming = FALSE, ![Len(prev)].model = model]
  ELSE prev

\* onChatComplete callback of Chat: setMessages(prev => ...)
chatCompleteHandler(prev, model) ==
  IF Len(prev) > 0 /\ prev[Len(prev)].isStreaming
  THEN [prev EXCEPT ![Len(prev)].isStreaming = FALSE, ![Len(prev)].model = Field(model)]
  ELSE prev

\* Mutant of chatErrorHandler: the streaming message is finalized and kept.
chatErrorHandlerKeeping(prev, message) ==
  LET kept == IF Len(prev) > 0 /\ prev[Len(prev)].isStreaming
              THEN [prev EXCEPT ![Len(prev)].isStreaming = FALSE]
              ELSE prev
  IN  Append(kept, Message(ErrPrefix \o OrElse(message, TryAgain), "bot", FALSE, <<>>))

\* onChatError callback of Chat: the two setMessages updates
chatErrorHandler(prev, message) ==
  LET kept == IF Len(prev) > 0 /\ prev[Len(prev)].isStreaming
              THEN SubSeq(prev, 1, Len(prev) - 1)
              ELSE prev
  IN  Append(kept, Message(ErrPrefix \o OrElse(message, TryAgain), "bot", FALSE, <<>>))

\* Mutant of chatImageHandler: the image also ends the streaming.
chatImageHandlerFinalizing(prev, url) ==
  IF Len(prev) > 0 /\ prev[Len(prev)].isStreaming
  THEN [prev EXCEPT ![Len(prev)].files =
          Append(@, [id |-> <<"img">>, type |-> "image", url |-> url]),
                    ![Len(prev)].isStreaming = FALSE]
  ELSE prev

\* onChatImage callback of Chat: setMessages(prev => ...)
chatImageHandler(prev, url) ==
  IF Len(prev) > 0 /\ prev[Len(prev)].isStreaming
  THEN [prev EXCEPT ![Len(prev)].files =
          Append(@, [id |-> <<"img">>, type |-> "image", url |-> url])]
  ELSE prev

Chat == [messages |-> messages, isLoading |-> isLoading, error |-> error]

\* One invocation of the callback the Chat component registered for `ev`.
ChatCallback(c, ev, data) ==
  CASE ev = "chat_token" -> [c EXCEPT !.messages = chatTokenHandler(@, data)]
    [] ev = "chat_complete" ->
         [c EXCEPT !.messages = chatCompleteHandler(@, data), !.isLoading = FALSE]
    [] ev = "chat_error" ->
         [c EXCEPT !.messages = chatErrorHandler(@, data),
                   !.error = OrElse(data, UnknownError), !.isLoading = FALSE]
    [] ev = "chat_image" -> [c EXCEPT !.messages = chatImageHandler(@, data)]
    [] OTHER -> c

\* The socket invokes every listener attached for the event, in the order
\* attached.  A callback of a component that is no longer mounted sets state
\* on a discarded instance, which React ignores.
RECURSIVE Dispatch(_, _, _, _)
Dispatch(c, ls, ev, data) ==
  IF ls = <<>> THEN c
  ELSE Dispatch(IF mounted /\ Head(ls) = gen THEN ChatCallback(c, ev, data) ELSE c,
                Tail(ls), ev, data)

Streaming(msgs) == {i \in DOMAIN msgs : msgs[i].isStreaming}

NoOp == [op |-> "none", ev |-> "none", data |-> NULL]

SetChat(c) ==
  /\ messages' = c.messages
  /\ isLoading' = c.isLoading
  /\ error' = c.error

Idle == [phase |-> "idle"]

\* ---------------------------------------------------------- outbound requests
ApiMessage(content) == [role |-> "user", content |-> content]

ImagePart(url) == [type |-> "image_url", val |-> url]
TextPart(text) == [type |-> "text", val |-> text]

ImageParts(urls) == [i \in DOMAIN urls |-> ImagePart(urls[i])]

SocketRequest(event, msgs, urls, model) ==
  [chan |-> "socket", event |-> event, messages |-> msgs, fileUrls |-> urls,
   model |-> model]

HttpRequest(msgs, model) ==
  [chan |-> "http", event |-> "POST /chat/", messages |-> msgs, fileUrls |-> <<>>,
   model |-> model]

NotConnected == <<"Socket not connected">>

\* Mutant of emitRequest: the event is emitted whatever the connection state.
emitRequestUnguarded(s, event, msgs, urls, model) ==
  [svc |-> s, emitted |-> <<SocketRequest(event, msgs, urls, model)>>, thrown |-> NULL]

\* The body shared by the two send methods of SocketService: what the call
\* leaves of the service, what it emits and what it throws.
emitRequest(s, event, msgs, urls, model) ==
  IF s.connected
  THEN [svc |-> s, emitted |-> <<SocketRequest(event, msgs, urls, model)>>,
        thrown |-> NULL]
  ELSE [svc |-> s, emitted |-> <<>>, thrown |-> NotConnected]

socketService_sendChatRequest(s, msgs, model) ==
  emitRequest(s, "chat_request", msgs, <<>>, model)

socketService_sendMultimodalChatRequest(s, msgs, fileUrls, model) ==
  emitRequest(s, "multimodal_chat_request", msgs, fileUrls, model)

\* Mutant of nonStreamingRequest: the retry is emitted on the socket again.
nonStreamingRequestOverSocket(apiMessages, fileUrls, isMultimodal) ==
  SocketRequest("chat_request", apiMessages, fileUrls, TextModel)

\* The request handleNonStreamingRequest hands to apiService.sendChatRequest.
nonStreamingRequest(apiMessages, fileUrls, isMultimodal) ==
  IF isMultimodal
  THEN LET userInput == IF Len(apiMessages) > 0 THEN apiMessages[1].content
                        ELSE DefaultPrompt
       IN  HttpRequest(<<ApiMessage(ImageParts(fileUrls) \o <<TextPart(userInput)>>)>>,
                       VisionModel)
  ELSE HttpRequest(apiMessages, TextModel)

\* Mutant of streamingRequest: the text part is sent as typed, before the images.
streamingRequestTextFirst(apiMessages, fileUrls, isMultimodal, text) ==
  IF isMultimodal
  THEN socketService_sendMultimodalChatRequest(Svc,
         <<ApiMessage(<<TextPart(text)>> \o ImageParts(fileUrls))>>,
         fileUrls, VisionModel)
  ELSE socketService_sendChatRequest(Svc, apiMessages, TextModel)

\* The call handleSendMessage makes on the socket service.
streamingRequest(apiMessages, fileUrls, isMultimodal, text) ==
  IF isMultimodal
  THEN socketService_sendMultimodalChatRequest(Svc,
         <<ApiMessage(ImageParts(fileUrls) \o <<TextPart(OrElse(text, DefaultPrompt))>>)>>,
         fileUrls, VisionModel)
  ELSE socketService_sendChatRequest(Svc, apiMessages, TextModel)

Attachment(item) == [id |-> item.id, type |-> item.type, url |-> <<"url", item.id>>,
                     previewUrl |-> item.preview]

\* Mutant of ImageUrlsOf: the URL of every attachment is forwarded.
ImageUrlsOfAll(atts) == [k \in DOMAIN atts |-> atts[k].url]

RECURSIVE ImageUrlsOf(_)
ImageUrlsOf(atts) ==
  IF atts = <<>> THEN <<>>
  ELSE (IF Head(atts).type = "image" THEN <<Head(atts).url>> ELSE <<>>)
       \o ImageUrlsOf(Tail(atts))

\* Mutant of SendPath: the streaming switch is not consulted.
SendPathIgnoringMode(cap, call) ==
  IF cap.isSocketConnected
  THEN IF call.thrown = NULL THEN "emit" ELSE "emitThrows"
  ELSE "http"

\* Which path handleSendMessage takes once the uploads are done: call is
\* what the send method of the socket service does if it is called.
SendPath(cap, call) ==
  IF cap.useStreaming /\ cap.isSocketConnected
  THEN IF call.thrown = NULL THEN "emit" ELSE "emitThrows"
  ELSE "http"

\* handleSendMessage from the creation of the user message on (after the
\* uploads); cap holds the state the handler closed over when it was called.
SendMessage(cap, fileAttachments) ==
  LET text == Trim(cap.inputValue)
      fileUrls == ImageUrlsOf(fileAttachments)
      userMessage == Message(text, "user", FALSE, fileAttachments)
      isMultimodal == Len(fileUrls) > 0
      apiMessages == IF text # NULL THEN <<ApiMessage(text)>> ELSE <<>>
      streamingMessage == Message(<<>>, "bot", TRUE, <<>>)
      call == streamingRequest(apiMessages, fileUrls, isMultimodal, text)
      path == SendPath(cap, call)
  IN  /\ SetSvc(IF path = "http" THEN Svc ELSE call.svc)
      /\ messages' = IF path = "http"
                     THEN Append(messages, userMessage)
                     ELSE Append(Append(messages, userMessage), streamingMessage)
      /\ outbox' = IF path = "emit"
                   THEN outbox \o call.emitted
                   ELSE Append(outbox, nonStreamingRequest(apiMessages, fileUrls,
                                                           isMultimodal))
      /\ httpPending' = IF path = "emit" THEN httpPending ELSE httpPending + 1
      /\ isLoading' = TRUE
      /\ error' = NULL
      /\ upload' = Idle
      /\ selectedFiles' = <<>>
      /\ last' = [op |-> "send", ev |-> path, data |-> cap.inputValue]

\* The kinds of the files of one selection gesture.
FileListsOf(most) ==
  {<<k>> : k \in FileKinds}
  \cup (IF most >= 2 THEN {<<k1, k2>> : k1 \in FileKinds, k2 \in FileKinds} ELSE {})

FileLists == FileListsOf(MaxFiles)

\* The FileItem made of the file with the given kind: only an image gets a
\* preview, the object URL created for it (0: no preview).
FileItem(n, kind) == [id |-> n, type |-> kind, preview |-> IF kind = "image" THEN n ELSE 0]

Previews(items) == {items[k].preview : k \in DOMAIN items} \ {0}

\* ---------------------------------------------------------------- ApiService
\* What fetch does with the POST: it rejects (no response), or resolves with
\* a response that has a status and a body.  A body is text that is not JSON,
\* the JSON value null, or a JSON object with the fields it has.
Statuses == {200, 404, 500}
Details == {<<"Bad request">>, Missing}
Bodies ==
  {[json |-> "invalid"], [json |-> "null"]}
  \cup {[json |-> "object", detail |-> d, response |-> r] :
          d \in Details, r \in HttpResponses}
FetchOutcomes ==
  {[kind |-> "reject", message |-> m] : m \in {<<"Failed to fetch">>, NULL}}
  \cup {[kind |-> "response", status |-> n, body |-> b] : n \in Statuses, b \in Bodies}

Ok(status) == status >= 200 /\ status <= 299

NoStatus == 0         \* the status of a thrown value that has none

TypeError(m) == [status |-> NoStatus, message |-> m]
NullRead == <<"Cannot read properties of null">>
NotJson == <<"Unexpected token">>

Returned(value) == [ok |-> TRUE, value |-> value]
Thrown(e) == [ok |-> FALSE, error |-> e]

NetworkError(m) == <<"Network error: ">> \o OrElse(m, <<"Unknown error">>)
HttpErrorText(n) == <<"HTTP error! status: ", n>>

\* The catch block of sendChatRequest: a value with a truthy status is thrown
\* again, anything else becomes a network error.
catchError(e) ==
  IF e.status # 0 THEN Thrown(e)
  ELSE Thrown([status |-> 0, message |-> NetworkError(e.message)])

\* The try block of sendChatRequest, with what it returns or throws.
tryBlock(o) ==
  IF o.kind = "reject" THEN Thrown(TypeError(o.message))
  ELSE IF ~Ok(o.status)
  THEN (IF o.body.json = "null" THEN Thrown(TypeError(NullRead))
        ELSE Thrown([status |-> o.status,
                     message |-> IF o.body.json = "object"
                                 THEN OrElse(o.body.detail, HttpErrorText(o.status))
                                 ELSE HttpErrorText(o.status)]))
  ELSE IF o.body.json = "invalid" THEN Thrown(TypeError(NotJson))
  ELSE Returned(o.body)

sendChatRequest(o) ==
  LET r == tryBlock(o)
  IN  IF r.ok THEN r ELSE catchError(r.error)

\* ------------------------------------------------------------------ actions
Constructed ==
  /\ connected = FALSE
  /\ registeredEvents = {}
  /\ reconnectAttempts = 0
  /\ sock = "closed"
  /\ listeners = initSocket
  /\ timers = <<>>
  /\ mounted = FALSE
  /\ gen = 0
  /\ messages = <<>>
  /\ isLoading = FALSE
  /\ error = NULL
  /\ isSocketConnected = FALSE
  /\ useStreaming = TRUE
  /\ upload = Idle
  /\ httpPending = 0
  /\ outbox = <<>>
  /\ last = NoOp
  /\ cleared = {}
  /\ dropsInRow = 0
  /\ scheduledInRow = 0
  /\ now = 0
  /\ selectedFiles = <<>>
  /\ objectURLs = {}
  /\ fileSeq = 0

Init == Constructed /\ limit = MaxMsgs

InitLong == Constructed /\ limit = LongMsgs

FreshChat ==
  /\ messages' = <<>>
  /\ isLoading' = FALSE
  /\ error' = NULL
  /\ isSocketConnected' = FALSE
  /\ useStreaming' = TRUE
  /\ upload' = Idle
  /\ httpPending' = 0
  /\ outbox' = <<>>
  /\ selectedFiles' = <<>>

\* The mount effect of Chat: connect, then register the five callbacks.
Mount ==
  /\ ~mounted
  /\ gen < MaxMounts
  /\ mounted' = TRUE
  /\ gen' = gen + 1
  /\ FreshChat
  /\ SetSvc(onChatImage(onChatError(onChatComplete(onChatToken(onChatStart(
              connect(Svc), gen + 1), gen + 1), gen + 1), gen + 1), gen + 1))
  /\ last' = [op |-> "mount", ev |-> "none", data |-> NULL]
  /\ UNCHANGED <<cleared, dropsInRow, scheduledInRow, limit, now, objectURLs, fileSeq>>

\* The cleanup of the mount effect: the poll stops, socketService.disconnect().
\* The component instance and everything it awaits are discarded.
Unmount ==
  /\ mounted
  /\ mounted' = FALSE
  /\ FreshChat
  /\ SetSvc(disconnect(Svc))
  /\ cleared' = IF connected THEN cleared \cup {gen} ELSE cleared
  /\ last' = [op |-> "unmount", ev |-> IF connected THEN "disconnect" ELSE "none",
              data |-> NULL]
  /\ UNCHANGED <<gen, dropsInRow, scheduledInRow, limit, now, objectURLs, fileSeq>>

\* connectionChecker: the one-second poll of socketService.isConnected().
PollConnection ==
  /\ mounted
  /\ isSocketConnected # isConnected(Svc)
  /\ isSocketConnected' = isConnected(Svc)
  /\ last' = NoOp
  /\ UNCHANGED <<svcVars, mounted, gen, messages, isLoading, error, useStreaming,
                 upload, httpPending, outbox, cleared, dropsInRow, scheduledInRow, limit, now, fileVars>>

toggleStreamingMode ==
  /\ mounted
  /\ useStreaming' = ~useStreaming
  /\ last' = NoOp
  /\ UNCHANGED <<svcVars, mounted, gen, messages, isLoading, error, isSocketConnected,
                 upload, httpPending, outbox, cleared, dropsInRow, scheduledInRow, limit, now, fileVars>>

Capture(input, files) ==
  [inputValue |-> input, selectedFiles |-> files, useStreaming |-> useStreaming,
   isSocketConnected |-> isSocketConnected]

\* Mutant of Rejected: an empty submission is accepted.
RejectedOnlyWhenLoading(input, files) == isLoading

Rejected(input, files) == (Trim(input) = NULL /\ Len(files) = 0) \/ isLoading

\* handleSendMessage, up to its first await.  One call at a time is followed
\* through its uploads: no submission is explored while another one awaits them.
handleSendMessage(input) ==
  LET files == selectedFiles
  IN
  /\ mounted
  /\ Len(messages) + 2 <= limit
  /\ upload.phase = "idle" \/ Rejected(input, files)
  /\ IF Rejected(input, files)
     THEN /\ last' = [op |-> "rejected", ev |-> "none", data |-> NULL]
          /\ UNCHANGED <<svcVars, messages, isLoading, error, upload, httpPending,
                         outbox, selectedFiles>>
     ELSE IF Len(files) = 0
     THEN SendMessage(Capture(input, files), <<>>)
     ELSE /\ isLoading' = TRUE
          /\ error' = NULL
          /\ upload' = [phase |-> "uploading", cap |-> Capture(input, files),
                        done |-> <<>>]
          /\ last' = [op |-> "upload", ev |-> "none", data |-> NULL]
          /\ UNCHANGED <<svcVars, messages, httpPending, outbox, selectedFiles>>
  /\ UNCHANGED <<mounted, gen, isSocketConnected, useStreaming, cleared,
                 dropsInRow, scheduledInRow, limit, now, objectURLs, fileSeq>>

Uploaded(u) == {u.done[i] : i \in DOMAIN u.done}

\* apiService.uploadFile resolves for file i; the attachment is pushed in
\* completion order.  When it is the last one, Promise.all resolves and the
\* handler goes on.
UploadDone(i) ==
  /\ upload.phase = "uploading"
  /\ i \in DOMAIN upload.cap.selectedFiles
  /\ i \notin Uploaded(upload)
  /\ LET done == Append(upload.done, i)
         files == upload.cap.selectedFiles
     IN  IF Len(done) = Len(files)
         THEN SendMessage(upload.cap, [k \in DOMAIN done |-> Attachment(files[done[k]])])
         ELSE /\ upload' = [upload EXCEPT !.done = done]
              /\ last' = NoOp
              /\ UNCHANGED <<svcVars, messages, isLoading, error, httpPending, outbox,
                             selectedFiles>>
  /\ UNCHANGED <<mounted, gen, isSocketConnected, useStreaming, cleared,
                 dropsInRow, scheduledInRow, limit, now, objectURLs, fileSeq>>

\* Mutant of UploadFailed: the user message is appended all the same.
UploadFailedPartialSend(i) ==
  /\ upload.phase = "uploading"
  /\ i \in DOMAIN upload.cap.selectedFiles
  /\ i \notin Uploaded(upload)
  /\ messages' = Append(messages, Message(Trim(upload.cap.inputValue), "user", FALSE, <<>>))
  /\ error' = <<"Failed to upload file ", i>>
  /\ isLoading' = FALSE
  /\ upload' = Idle
  /\ last' = [op |-> "uploadFailed", ev |-> "none", data |-> NULL]
  /\ UNCHANGED <<svcVars, mounted, gen, isSocketConnected, useStreaming,
                 httpPending, outbox, cleared, dropsInRow, scheduledInRow, limit, now, fileVars>>

\* apiService.uploadFile rejects for file i: Promise.all rejects, the outer
\* catch sets the error and ends the exchange.
UploadFailed(i) ==
  /\ upload.phase = "uploading"
  /\ i \in DOMAIN upload.cap.selectedFiles
  /\ i \notin Uploaded(upload)
  /\ error' = <<"Failed to upload file ", i>>
  /\ isLoading' = FALSE
  /\ upload' = Idle
  /\ last' = [op |-> "uploadFailed", ev |-> "none", data |-> NULL]
  /\ UNCHANGED <<svcVars, mounted, gen, messages, isSocketConnected, useStreaming,
                 httpPending, outbox, cleared, dropsInRow, scheduledInRow, limit, now, fileVars>>

\* Mutant of httpSucceeded: the reply is written into a streaming placeholder.
httpSucceededIntoPlaceholder(response) ==
  /\ httpPending > 0
  /\ Len(messages) < limit
  /\ httpPending' = httpPending - 1
  /\ messages' = IF Len(messages) > 0 /\ messages[Len(messages)].isStreaming
                 THEN [messages EXCEPT ![Len(messages)].text = response,
                                       ![Len(messages)].isStreaming = FALSE]
                 ELSE Append(messages, Message(response, "bot", FALSE, <<>>))
  /\ isLoading' = FALSE
  /\ UNCHANGED <<svcVars, mounted, gen, error, isSocketConnected, useStreaming, upload,
                 outbox, cleared, dropsInRow, scheduledInRow, limit, now, fileVars>>

\* handleNonStreamingRequest after its await: the HTTP call returned.
httpSucceeded(response) ==
  /\ httpPending > 0
  /\ Len(messages) < limit
  /\ httpPending' = httpPending - 1
  /\ messages' = Append(messages, Message(response, "bot", FALSE, <<>>))
  /\ isLoading' = FALSE
  /\ UNCHANGED <<svcVars, mounted, gen, error, isSocketConnected, useStreaming, upload,
                 outbox, cleared, dropsInRow, scheduledInRow, limit, now, fileVars>>

HttpResponse(response) ==
  /\ httpSucceeded(response)
  /\ last' = [op |-> "httpResponse", ev |-> "none", data |-> response]

\* handleNonStreamingRequest after its await: the HTTP call failed.
httpFailed(message) ==
  /\ httpPending > 0
  /\ Len(messages) < limit
  /\ httpPending' = httpPending - 1
  /\ messages' = Append(messages,
                        Message(ErrPrefix \o OrElse(message, TryAgain), "bot", FALSE, <<>>))
  /\ error' = OrElse(message, UnknownError)
  /\ isLoading' = FALSE
  /\ UNCHANGED <<svcVars, mounted, gen, isSocketConnected, useStreaming, upload,
                 outbox, cleared, dropsInRow, scheduledInRow, limit, now, fileVars>>

HttpFailure(message) ==
  /\ httpFailed(message)
  /\ last' = [op |-> "httpFailure", ev |-> "none", data |-> message]

\* handleNonStreamingRequest after its await, with the outcome of the fetch
\* that apiService.sendChatRequest made: data.response of the returned value
\* becomes the reply, the message of the thrown value the error.
HttpReturn(o) ==
  LET r == sendChatRequest(o)
  IN  /\ IF r.ok
         THEN (IF r.value.json = "null" THEN httpFailed(NullRead)
               ELSE httpSucceeded(r.value.response))
         ELSE httpFailed(r.error.message)
      /\ last' = [op |-> "http", ev |-> o, data |-> r]

\* ------------------------------------------------------- transport events
\* 'connect': the handshake completed.
TransportConnect ==
  /\ sock = "opening"
  /\ SetSvc(onConnect([Svc EXCEPT !.sock = "open"]))
  /\ dropsInRow' = 0
  /\ scheduledInRow' = 0
  /\ last' = [op |-> "connect",
              ev |-> IF reconnectAttempts > 0 THEN "retried" ELSE "none",
              data |-> NULL]
  /\ UNCHANGED <<chatVars, outbox, cleared, limit, now, fileVars>>

\* 'connect_error': the handshake failed; the Manager retries or gives up.
TransportConnectError(next) ==
  /\ sock = "opening"
  /\ SetSvc(onConnectError([Svc EXCEPT !.sock = next]))
  /\ last' = [op |-> "connectError", ev |-> "none", data |-> NULL]
  /\ UNCHANGED <<chatVars, outbox, cleared, dropsInRow, scheduledInRow, limit, now, fileVars>>

WillSchedule(reason) ==
  reason \in InvoluntaryReasons /\ reconnectAttempts < maxReconnectAttempts

\* 'disconnect' from the remote side.  The Socket emits it on every close of
\* the Manager's transport, also one that was open but had not completed the
\* namespace handshake.  After a server-side disconnect the socket stays
\* closed; after a transport failure the Manager (reconnection: true) reopens
\* on its own unless it has given up.
TransportDisconnect(reason, next) ==
  /\ sock \in {"opening", "open"}
  /\ reason = "io server disconnect" => next = "closed"
  /\ reason \in InvoluntaryReasons => dropsInRow < MaxDrops
  /\ WillSchedule(reason) => Len(timers) < MaxTimers
  /\ SetSvc(onDisconnect([Svc EXCEPT !.sock = next], reason))
  /\ dropsInRow' = IF reason \in InvoluntaryReasons THEN dropsInRow + 1 ELSE dropsInRow
  /\ scheduledInRow' = IF WillSchedule(reason) THEN scheduledInRow + 1 ELSE scheduledInRow
  /\ last' = [op |-> "drop", ev |-> reason, data |-> NULL]
  /\ UNCHANGED <<chatVars, outbox, cleared, limit, now, fileVars>>

RemoveAt(q, i) == SubSeq(q, 1, i - 1) \o SubSeq(q, i + 1, Len(q))

\* A pending reconnect timer fires.
ReconnectTimerFires(i) ==
  /\ i \in DOMAIN timers
  /\ reconnectAttempts < MaxAttempts
  /\ SetSvc(reconnectTimer([Svc EXCEPT !.timers = RemoveAt(@, i)]))
  /\ last' = [op |-> "timer", ev |-> "none", data |-> NULL]
  /\ UNCHANGED <<chatVars, outbox, cleared, dropsInRow, scheduledInRow, limit, now, fileVars>>

\* ----------------------------------------------------------- inbound events
Payloads(ev) ==
  CASE ev = "chat_token" -> Tokens
    [] ev = "chat_complete" -> CompleteModels
    [] ev = "chat_error" -> ErrorMessages
    [] ev = "chat_image" -> ImageUrls
    [] OTHER -> {NULL}

Grows(ev) ==
  \/ ev = "chat_error" /\ Len(messages) >= limit
  \/ ev = "chat_token" /\ \E i \in DOMAIN messages : Len(messages[i].text) >= MaxText
                                                   /\ messages[i].isStreaming
  \/ ev = "chat_image" /\ \E i \in DOMAIN messages : Len(messages[i].files) >= MaxFiles
                                                   /\ messages[i].isStreaming

\* The server sends event `ev`; the socket invokes the attached listeners.
Deliver(ev, data) ==
  /\ sock = "open"
  /\ ~Grows(ev)
  /\ SetChat(Dispatch(Chat, listeners[ev], ev, data))
  /\ last' = [op |-> "deliver", ev |-> ev, data |-> data]
  /\ UNCHANGED <<svcVars, mounted, gen, isSocketConnected, useStreaming, upload,
                 httpPending, outbox, cleared, dropsInRow, scheduledInRow, limit, now, fileVars>>

\* 'error': the handler only logs.
TransportError ==
  /\ sock \in {"opening", "open"}
  /\ last' = [op |-> "error", ev |-> "none", data |-> NULL]
  /\ UNCHANGED <<svcVars, chatVars, outbox, cleared, dropsInRow, scheduledInRow, limit, now, fileVars>>

\* A client of the service subscribes to heartbeats: socketService.onHeartbeat(cb).
subscribeHeartbeat(cb) ==
  /\ mounted
  /\ Len(listeners["heartbeat"]) < MaxMounts + 1
  /\ SetSvc(onHeartbeat(Svc, cb))
  /\ last' = [op |-> "onHeartbeat", ev |-> "heartbeat", data |-> NULL]
  /\ UNCHANGED <<chatVars, outbox, cleared, dropsInRow, scheduledInRow, limit, now, fileVars>>

\* The streaming session of one mounted Chat component, text submissions.
Next ==
  \/ Mount
  \/ PollConnection
  \/ toggleStreamingMode
  \/ \E input \in InputValues : handleSendMessage(input)
  \/ \E r \in HttpResponses : HttpResponse(r)
  \/ \E m \in HttpErrors : HttpFailure(m)
  \/ TransportConnect
  \/ \E next \in {"opening", "closed"} : TransportConnectError(next)
  \/ \E next \in {"opening", "closed"} : TransportDisconnect("transport error", next)
  \/ \E ev \in Events \ {"chat_image"} : \E data \in Payloads(ev) : Deliver(ev, data)

Spec == Init /\ [][Next]_vars

SpecLong == InitLong /\ [][Next]_vars

\* The connection manager and the event router under mounts and unmounts of
\* the component, every disconnect reason and the reconnect timers.
NextConn ==
  \/ Mount
  \/ Unmount
  \/ TransportConnect
  \/ \E next \in {"opening", "closed"} : TransportConnectError(next)
  \/ \E reason \in RemoteReasons, next \in {"opening", "closed"} :
       TransportDisconnect(reason, next)
  \/ \E i \in 1..MaxTimers : ReconnectTimerFires(i)
  \/ \E ev \in {"heartbeat", "chat_start", "chat_token"} :
       \E data \in Payloads(ev) : Deliver(ev, data)

SpecConn == Init /\ [][NextConn]_vars

\* The service with a heartbeat subscriber, beside one streaming exchange.
NextBeat ==
  \/ Mount
  \/ PollConnection
  \/ subscribeHeartbeat(gen)
  \/ \E input \in InputValues : handleSendMessage(input)
  \/ TransportConnect
  \/ TransportError
  \/ \E next \in {"opening", "closed"} : TransportDisconnect("transport error", next)
  \/ \E ev \in Events : \E data \in Payloads(ev) : Deliver(ev, data)
  \/ \E ev \in {"chat_token", "chat_complete", "chat_error"} : Deliver(ev, Missing)

InitBeat == Constructed /\ limit = BeatMsgs

SpecBeat == InitBeat /\ [][NextBeat]_vars

\* A millisecond passes.
Tick ==
  /\ now < MaxClock
  /\ now' = now + 1
  /\ UNCHANGED <<svcVars, chatVars, outbox, last, cleared, dropsInRow, scheduledInRow,
                 limit, fileVars>>

\* The first submission of a conversation.
firstSubmission(input) ==
  /\ messages = <<>>
  /\ handleSendMessage(input)

\* FileUpload.processFiles on a file list (picked or dropped), then the
\* onFileSelect callback of Chat; at most `most` files are followed in a run.
processFilesOf(fileList, most) ==
  LET remainingSlots == maxFiles - Len(selectedFiles)
      filesToProcess == Min(Len(fileList), remainingSlots)
      newFiles == [i \in 1..filesToProcess |-> FileItem(fileSeq + i, fileList[i])]
  IN  /\ mounted
      /\ fileSeq + Len(fileList) <= most
      /\ IF filesToProcess <= 0
         THEN UNCHANGED fileVars
         ELSE /\ selectedFiles' = selectedFiles \o newFiles
              /\ objectURLs' = objectURLs \cup Previews(newFiles)
              /\ fileSeq' = fileSeq + filesToProcess
      /\ last' = [op |-> "select", ev |-> "none", data |-> NULL]
      /\ UNCHANGED <<svcVars, chatVars, outbox, cleared, dropsInRow, scheduledInRow,
                     limit, now>>

processFiles(fileList) == processFilesOf(fileList, MaxFiles)

RECURSIVE Without(_, _)
Without(items, id) ==
  IF items = <<>> THEN <<>>
  ELSE (IF Head(items).id = id THEN <<>> ELSE <<Head(items)>>) \o Without(Tail(items), id)

\* The remove button of a selected file: onFileRemove, then the preview of
\* the file is revoked.
removeFile(k) ==
  /\ mounted
  /\ k \in DOMAIN selectedFiles
  /\ selectedFiles' = Without(selectedFiles, selectedFiles[k].id)
  /\ objectURLs' = objectURLs \ {selectedFiles[k].preview}
  /\ last' = [op |-> "remove", ev |-> "none", data |-> NULL]
  /\ UNCHANGED <<svcVars, chatVars, outbox, cleared, dropsInRow, scheduledInRow,
                 limit, now, fileSeq>>

\* The first exchange of a mounted Chat component with attachments: uploads,
\* multimodal requests and generated images.
NextFiles ==
  \/ Mount
  \/ PollConnection
  \/ \E fileList \in FileLists : processFiles(fileList)
  \/ \E k \in 1..MaxFiles : removeFile(k)
  \/ \E input \in InputValues : firstSubmission(input)
  \/ \E i \in 1..MaxFiles : UploadDone(i)
  \/ \E i \in 1..MaxFiles : UploadFailed(i)
  \/ \E r \in HttpResponses : HttpResponse(r)
  \/ \E m \in HttpErrors : HttpFailure(m)
  \/ TransportConnect
  \/ \E next \in {"opening", "closed"} : TransportDisconnect("transport error", next)
  \/ \E ev \in {"chat_image", "chat_complete", "chat_error"} :
       \E data \in Payloads(ev) : Deliver(ev, data)

InitFiles == Constructed /\ limit = FileMsgs

SpecFiles == InitFiles /\ [][NextFiles]_vars

\* One exchange of a mounted Chat component, to its end.  What the program
\* waits for comes eventually: the HTTP call returns, each upload resolves or
\* rejects, and the server answers on a socket that stays open.  Nothing makes
\* a closed transport open again.
HttpReturns ==
  \/ \E r \in HttpResponses : HttpResponse(r)
  \/ \E m \in HttpErrors : HttpFailure(m)

UploadReturns == \E i \in 1..MaxFiles : UploadDone(i) \/ UploadFailed(i)

ServerReplies ==
  \E ev \in {"chat_complete", "chat_error"} : \E data \in Payloads(ev) : Deliver(ev, data)

NextLive ==
  \/ Mount
  \/ PollConnection
  \/ \E fileList \in FileLists : processFiles(fileList)
  \/ \E input \in InputValues : firstSubmission(input)
  \/ UploadReturns
  \/ HttpReturns
  \/ TransportConnect
  \/ \E next \in {"opening", "closed"} : TransportDisconnect("transport error", next)
  \/ ServerReplies

Fairness == WF_vars(HttpReturns) /\ WF_vars(UploadReturns) /\ WF_vars(ServerReplies)

SpecLive == InitFiles /\ [][NextLive]_vars /\ Fairness

\* A conversation of a mounted Chat component while the clock runs: several
\* handlers may run within one millisecond.
NextIds ==
  \/ Mount
  \/ PollConnection
  \/ TransportConnect
  \/ Tick
  \/ \E input \in InputValues : handleSendMessage(input)
  \/ \E r \in HttpResponses : HttpResponse(r)
  \/ \E ev \in {"chat_complete", "chat_error"} :
       \E data \in Payloads(ev) : Deliver(ev, data)

SpecIds == InitFiles /\ [][NextIds]_vars

\* One exchange of a mounted Chat component under every inbound event, the
\* transport going up and down, and the HTTP fallback.
NextStream ==
  \/ Mount
  \/ PollConnection
  \/ \E input \in InputValues : firstSubmission(input)
  \/ \E r \in HttpResponses : HttpResponse(r)
  \/ \E m \in HttpErrors : HttpFailure(m)
  \/ TransportConnect
  \/ \E next \in {"opening", "closed"} : TransportConnectError(next)
  \/ \E next \in {"opening", "closed"} : TransportDisconnect("transport error", next)
  \/ \E ev \in Events : \E data \in Payloads(ev) : Deliver(ev, data)

SpecStream == InitFiles /\ [][NextStream]_vars

\* The first submission of a mounted Chat component, in either mode, with
\* its uploads, while the transport goes up and down.
NextSend ==
  \/ Mount
  \/ PollConnection
  \/ toggleStreamingMode
  \/ \E fileList \in FileLists : processFiles(fileList)
  \/ \E input \in InputValues : firstSubmission(input)
  \/ \E i \in 1..MaxFiles : UploadDone(i)
  \/ \E i \in 1..MaxFiles : UploadFailed(i)
  \/ TransportConnect
  \/ \E next \in {"opening", "closed"} : TransportDisconnect("transport error", next)

SpecSend == InitFiles /\ [][NextSend]_vars

\* The first submission of a mounted Chat component with up to PairFiles
\* files, whose uploads resolve in any order.
NextOrder ==
  \/ Mount
  \/ PollConnection
  \/ TransportConnect
  \/ \E fileList \in FileListsOf(PairFiles) : processFilesOf(fileList, PairFiles)
  \/ \E k \in 1..PairFiles : removeFile(k)
  \/ \E input \in InputValues : firstSubmission(input)
  \/ \E i \in 1..PairFiles : UploadDone(i)
  \/ \E i \in 1..PairFiles : UploadFailed(i)

SpecOrder == InitFiles /\ [][NextOrder]_vars

\* The HTTP exchanges of a mounted Chat component, each with what the fetch
\* of sendChatRequest met.
NextApi ==
  \/ Mount
  \/ PollConnection
  \/ toggleStreamingMode
  \/ \E input \in InputValues : handleSendMessage(input)
  \/ \E o \in FetchOutcomes : HttpReturn(o)
  \/ TransportConnect
  \/ \E next \in {"opening", "closed"} : TransportDisconnect("transport error", next)

SpecApi == Init /\ [][NextApi]_vars

\* ------------------------------------------------------------------- claims
Delivered(ev) == last.op = "deliver" /\ last.ev = ev

Sent == last.op = "send"

ErrorBubble(m) == Message(ErrPrefix \o m, "bot", FALSE, <<>>)

\* C1: at most one message of the conversation has isStreaming = true, in
\* every reachable state.
C1_AtMostOneStreaming == Cardinality(Streaming(messages)) <= 1

\* C2: a chat_token received while one message is streaming appends its
\* fragment to the text of that message, and a heartbeat or chat_start
\* received in between leaves every text as it is; so the text is the
\* concatenation of the fragments in arrival order.
C2_TokensConcatenate ==
  [][/\ (Delivered("chat_token")' /\ Cardinality(Streaming(messages)) = 1)
          => \A i \in Streaming(messages) :
               /\ i \in DOMAIN messages'
               /\ messages'[i].text = messages[i].text \o last'.data
     /\ (Delivered("heartbeat")' \/ Delivered("chat_start")')
          => messages' = messages]_vars

\* C3: a chat_token that arrives while no message is streaming (the exchange
\* completed or failed) changes no message and creates none.
C3_StaleTokenDiscarded ==
  [][(Delivered("chat_token")' /\ Streaming(messages) = {})
       => messages' = messages]_vars

C3_Witness ==
  /\ Delivered("chat_token")
  /\ Streaming(messages) = {}
  /\ \E i \in DOMAIN messages : messages[i].sender = "bot" /\ messages[i].model # NULL

\* C4: a text submission made while socketService.isConnected() is false
\* appends the user message and no streaming message, whatever the polled
\* isSocketConnected flag says, and the reply of the HTTP fallback becomes
\* the one bot message of the exchange.
C4_FallbackNoPlaceholder ==
  [][/\ (Sent' /\ ~isConnected(Svc))
          => /\ messages' = Append(messages, Message(Trim(last'.data), "user", FALSE, <<>>))
             /\ httpPending' = httpPending + 1
     /\ (last'.op = "httpResponse")
          => messages' = Append(messages, Message(last'.data, "bot", FALSE, <<>>))]_vars

C6_CompleteFinalizes ==
  [][(Delivered("chat_complete")' /\ Streaming(messages) # {})
       => /\ messages' = [i \in DOMAIN messages |->
                            IF messages[i].isStreaming
                            THEN [messages[i] EXCEPT !.isStreaming = FALSE,
                                                     !.model = last'.data]
                            ELSE messages[i]]
          /\ Streaming(messages') = {}]_vars

\* C7: an accepted submission with streaming enabled and the socket connected
\* appends the user message with the trimmed input and then one empty
\* streaming bot message, and emits one socket request; a streaming message
\* is created only when a socket request is emitted.
C7_StreamingStart ==
  [][/\ (Sent' /\ useStreaming /\ isSocketConnected /\ isConnected(Svc))
          => /\ messages' = messages \o
                   <<Message(Trim(last'.data), "user", FALSE, <<>>),
                     Message(<<>>, "bot", TRUE, <<>>)>>
             /\ Len(outbox') = Len(outbox) + 1
             /\ outbox'[Len(outbox')].chan = "socket"
     /\ (Sent' /\ Streaming(messages') # Streaming(messages))
          => /\ Len(outbox') = Len(outbox) + 1
             /\ outbox'[Len(outbox')].chan = "socket"]_vars

\* The callbacks registered through the service for `ev` that one inbound
\* event invokes (all attached listeners but the logger of initSocket).
Invoked(ev) == SelectSeq(listeners[ev], LAMBDA cb : cb # 0)

\* C8: one inbound event of a given name invokes at most one registered
\* callback for that name, after any sequence of registrations, connects,
\* disconnects and transport events.
C8_SingleDelivery ==
  sock = "open" => \A ev \in Events : Len(Invoked(ev)) <= 1

\* C9: after disconnect() on a connected socket no callback registered before
\* it is invoked by a later inbound event (the callbacks of an unmounted
\* component are never registered again).
C9_DisconnectClearsHandlers ==
  sock = "open" =>
    \A ev \in Events : \A k \in DOMAIN Invoked(ev) : Invoked(ev)[k] \notin cleared

\* C10: in a run of involuntary drops with no successful connect in between,
\* the first five drops each schedule one automatic reconnect attempt and no
\* later drop schedules another.
C10_FiveAttemptsThenStop ==
  /\ dropsInRow <= maxReconnectAttempts => scheduledInRow = dropsInRow
  /\ dropsInRow >= maxReconnectAttempts => scheduledInRow = maxReconnectAttempts

\* The last operation was a 'disconnect' event from the remote side.
Dropped == last.op = "drop"

\* socketService.disconnect() took effect on the current generation of the
\* component and connect() has not been called since (connect() is called by
\* the mount effect only).
LocallyDisconnected == ~mounted /\ gen \in cleared

\* C11: a 'disconnect' event schedules a reconnect exactly when its reason is
\* an involuntary drop and reconnectAttempts is below 5, and after a local
\* disconnect() the service stays disconnected until connect() is called.
C11_ReconnectOnlyWhenInvoluntary ==
  [][/\ Dropped' => (Len(timers') = Len(timers) + 1
                       <=> (last'.ev \in InvoluntaryReasons
                            /\ reconnectAttempts < maxReconnectAttempts))
     /\ (last'.op = "unmount" /\ last'.ev = "disconnect") => timers' = timers
     /\ (LocallyDisconnected /\ LocallyDisconnected') => ~isConnected(Svc)']_vars

\* C12: reconnectAttempts never exceeds the maximum of 5, in every reachable
\* state.
C12_AttemptsCapped == reconnectAttempts <= maxReconnectAttempts

C14_DisconnectFromEveryState ==
  /\ (~mounted /\ gen > 0) => ~isConnected(Svc)
  /\ disconnect(disconnect(Svc)) = disconnect(Svc)

\* The last operation was a transport lifecycle event that is not 'connect':
\* 'disconnect' from the remote side, 'connect_error', or the 'disconnect'
\* that socket.disconnect() emits.
LifecycleDown ==
  \/ last.op \in {"drop", "connectError"}
  \/ last.op = "unmount" /\ last.ev = "disconnect"

\* C15: a 'connect' event makes the service connected and resets
\* reconnectAttempts to 0; a 'disconnect' or 'connect_error' event makes it
\* not connected; nothing else changes the flag, so isConnected() is true
\* exactly when the most recent lifecycle event was 'connect'.
C15_ConnectedIffLastWasConnect ==
  [][/\ last'.op = "connect" => (isConnected(Svc)' /\ reconnectAttempts' = 0)
     /\ LifecycleDown' => ~isConnected(Svc)'
     /\ (last'.op # "connect" /\ ~LifecycleDown')
          => isConnected(Svc)' = isConnected(Svc)]_vars

C15_Witness ==
  /\ last.op = "connect"
  /\ last.ev = "retried"
  /\ isConnected(Svc)
  /\ reconnectAttempts = 0

Range(q) == {q[i] : i \in DOMAIN q}

\* C16: a heartbeat event and a transport 'error' event change neither the
\* connection state (connected, reconnectAttempts, registeredEvents) nor any
\* message; onHeartbeat(cb) attaches cb for 'heartbeat', and no other
\* operation detaches a heartbeat listener, so the heartbeat is delivered to it.
C16_HeartbeatFrame ==
  [][/\ (Delivered("heartbeat")' \/ last'.op = "error")
          => UNCHANGED <<connected, reconnectAttempts, registeredEvents, sock,
                         messages, isLoading, error>>
     /\ last'.op = "onHeartbeat"
          => /\ listeners'["heartbeat"] # <<>>
             /\ listeners'["heartbeat"][Len(listeners'["heartbeat"])] = gen
     /\ last'.op # "onHeartbeat"
          => listeners'["heartbeat"] = listeners["heartbeat"]]_vars

C16_Witness ==
  /\ Delivered("heartbeat")
  /\ gen \in Range(Invoked("heartbeat"))
  /\ isConnected(Svc)
  /\ Streaming(messages) # {}

Max(S) == CHOOSE x \in S : \A y \in S : y <= x

\* The message a generated image belongs to: the streaming one if a message
\* is streaming, otherwise the most recently completed bot message (0: none).
CurrentMessage(msgs) ==
  LET bots == {i \in DOMAIN msgs : msgs[i].sender = "bot"}
  IN  IF Streaming(msgs) # {} THEN Max(Streaming(msgs))
      ELSE IF bots # {} THEN Max(bots) ELSE 0

GeneratedImage(url) == [id |-> <<"img">>, type |-> "image", url |-> url]

\* C17: a chat_image event appends one image attachment to the current
\* message (the streaming one, otherwise the most recently completed bot
\* message) and changes no isStreaming flag, so an image that arrives after
\* chat_complete is still attached.
C17_ImageAttached ==
  [][Delivered("chat_image")'
       => LET cur == CurrentMessage(messages)
          IN  IF cur = 0 THEN messages' = messages
              ELSE messages' = [messages EXCEPT
                                  ![cur].files = Append(@, GeneratedImage(last'.data))]]_vars

C19_LoadingEnds == isLoading ~> ~isLoading

\* C20: when the upload of a selected attachment fails, no user message is
\* appended, no socket request and no HTTP chat request is sent, the error
\* state names the failed file, isLoading returns to false and nothing of
\* the exchange is left pending.
C20_UploadFailureAborts ==
  [][last'.op = "uploadFailed"
       => /\ messages' = messages
          /\ outbox' = outbox
          /\ httpPending' = httpPending
          /\ \E i \in DOMAIN upload.cap.selectedFiles \ Uploaded(upload) :
               error' = <<"Failed to upload file ", i>>
          /\ ~isLoading'
          /\ upload' = Idle]_vars

C20_Witness ==
  /\ last.op = "uploadFailed"
  /\ messages = <<>>
  /\ outbox = <<>>
  /\ error = <<"Failed to upload file ", 1>>
  /\ ~isLoading
  /\ isConnected(Svc)

\* C21: a submission is accepted only if isLoading is false and the trimmed
\* input is not empty or a file is selected; a rejected submission appends
\* no message, sends no request and leaves isLoading and error unchanged.
C21_SubmissionGuard ==
  [][/\ (Sent' /\ upload.phase = "idle")
          => (~isLoading /\ Trim(last'.data) # NULL)
     /\ last'.op = "upload"
          => /\ ~isLoading
             /\ upload.phase = "idle"
             /\ Len(upload'.cap.selectedFiles) > 0
     /\ last'.op = "rejected"
          => UNCHANGED <<messages, outbox, httpPending, isLoading, error, upload>>]_vars

C21_Witness ==
  /\ last.op = "rejected"
  /\ isLoading
  /\ upload.phase = "uploading"
  /\ messages = <<>>
  /\ outbox = <<>>

\* The request the last accepted submission sent, and its user message.
LastRequest == outbox[Len(outbox)]

SentUserMessage ==
  IF last.ev = "http" THEN messages[Len(messages)] ELSE messages[Len(messages) - 1]

\* The uploaded URLs of the image-kind attachments of a message.
UploadedImages(msg) ==
  {msg.files[k].url : k \in {j \in DOMAIN msg.files : msg.files[j].type = "image"}}

\* C22: a submission with at least one image and no text, emitted on the
\* socket, is a multimodal_chat_request whose fileUrls are the uploaded image
\* URLs and whose messages[0].content holds one image_url entry per URL, in
\* that order, followed by one text entry with the default prompt.
C22_MultimodalPayload ==
  [][(Sent' /\ last'.ev = "emit" /\ Trim(last'.data) = NULL
        /\ UploadedImages(SentUserMessage') # {})
       => LET req == LastRequest'
              content == req.messages[1].content
          IN  /\ req.chan = "socket"
              /\ req.event = "multimodal_chat_request"
              /\ Range(req.fileUrls) = UploadedImages(SentUserMessage')
              /\ Len(req.messages) = 1
              /\ Len(content) = Len(req.fileUrls) + 1
              /\ \A k \in DOMAIN req.fileUrls :
                   content[k] = [type |-> "image_url", val |-> req.fileUrls[k]]
              /\ content[Len(content)] = [type |-> "text", val |-> DefaultPrompt]]_vars

C22_Witness ==
  /\ Sent
  /\ last.ev = "emit"
  /\ Trim(last.data) = NULL
  /\ UploadedImages(SentUserMessage) # {}
  /\ LastRequest.event = "multimodal_chat_request"
  /\ LastRequest.fileUrls # <<>>

\* The URLs an outbound request forwards as image_url entries.
ImageEntries(req) ==
  IF req.model = VisionModel
  THEN LET content == req.messages[1].content
       IN  {content[k].val : k \in {j \in DOMAIN content : content[j].type = "image_url"}}
  ELSE {}

\* C23: the fileUrls and the image_url entries of an outbound request are
\* exactly the uploaded URLs of the image-kind selections; every uploaded
\* file, whatever its kind, is in the files of the user message.
C23_OnlyImagesForwarded ==
  [][Sent'
       => /\ ImageEntries(LastRequest') = UploadedImages(SentUserMessage')
          /\ Range(LastRequest'.fileUrls) \subseteq UploadedImages(SentUserMessage')
          /\ LastRequest'.chan = "socket"
               => Range(LastRequest'.fileUrls) = UploadedImages(SentUserMessage')
          /\ upload.phase = "uploading"
               => {SentUserMessage'.files[k].id : k \in DOMAIN SentUserMessage'.files}
                    = {upload.cap.selectedFiles[k].id : k \in DOMAIN upload.cap.selectedFiles}]_vars

C23_Witness ==
  /\ Sent
  /\ \E k \in DOMAIN SentUserMessage.files : SentUserMessage.files[k].type = "document"
  /\ LastRequest.fileUrls = <<>>
  /\ ImageEntries(LastRequest) = {}
  /\ Trim(last.data) # NULL

\* A message without its attachments.
Frozen(msg) == [msg EXCEPT !.files = <<>>]

\* C24: under an inbound event, a message that is not streaming stays in the
\* conversation with its id, text, sender, isStreaming flag and model unchanged;
\* the model of a message changes only on chat_complete, and only when the
\* message had none.
C24_FinalizedImmutable ==
  [][last'.op = "deliver"
       => /\ \A i \in DOMAIN messages :
               ~messages[i].isStreaming
                 => /\ i \in DOMAIN messages'
                    /\ Frozen(messages'[i]) = Frozen(messages[i])
          /\ \A i \in DOMAIN messages \cap DOMAIN messages' :
               (messages'[i].id = messages[i].id
                  /\ messages'[i].model # messages[i].model)
                 => (last'.ev = "chat_complete" /\ messages[i].model = NULL)]_vars

C24_Witness ==
  /\ Delivered("chat_image")
  /\ Len(messages) = 2
  /\ messages[2].sender = "bot"
  /\ messages[2].model # NULL
  /\ ~messages[2].isStreaming
  /\ messages[2].text # <<>>

\* C25: an inbound event without its expected field corrupts nothing: a
\* chat_token without token leaves every text unchanged, a chat_error
\* without message ends the exchange with the default error text, and a
\* chat_complete without model finalizes the streaming message.
C25_MissingFieldSkipped ==
  [][(last'.op = "deliver" /\ last'.data = Missing)
       => /\ last'.ev = "chat_token" => messages' = messages
          /\ last'.ev = "chat_error"
               => /\ messages'[Len(messages')] = ErrorBubble(TryAgain)
                  /\ error' = UnknownError
                  /\ ~isLoading'
          /\ last'.ev = "chat_complete"
               => /\ Streaming(messages') = Streaming(messages) \ {Len(messages)}
                  /\ ~isLoading']_vars

\* C26: every preview handle created for a selected file is released once
\* the file leaves the selection, by removal, by a successful send that
\* clears the selection or by a failed send: the object URLs still alive are
\* those of the files currently selected.
C26_PreviewsReleased == objectURLs \subseteq Previews(selectedFiles)

\* C27: the ids of the messages of the conversation are pairwise distinct in
\* every reachable state, and a message keeps the id it was created with.
C27_IdsDistinct ==
  /\ [](\A i, j \in DOMAIN messages : i # j => messages[i].id # messages[j].id)
  /\ [][\A i \in DOMAIN messages \cap DOMAIN messages' :
          (~(last'.op = "deliver" /\ last'.ev = "chat_error" /\ i = Len(messages)))
            => messages'[i].id = messages[i].id]_vars

\* C28: sendChatRequest returns the parsed response or fails with a value
\* that carries a status and a message and nothing else: a non-2xx response
\* gives its HTTP status with the server's detail or 'HTTP error! status: N',
\* a network failure gives status 0 and a 'Network error: ' message.
C28_ErrorShape ==
  [][last'.op = "http" =>
       LET o == last'.ev
           r == last'.data
       IN  /\ r.ok => o.kind = "response" /\ Ok(o.status) /\ r.value = o.body
           /\ ~r.ok => DOMAIN r.error = {"status", "message"}
           /\ (o.kind = "response" /\ ~Ok(o.status))
                => /\ ~r.ok
                   /\ r.error.status = o.status
                   /\ r.error.message \in
                        {HttpErrorText(o.status)}
                        \cup (IF o.body.json = "object" /\ ~Falsy(o.body.detail)
                              THEN {o.body.detail} ELSE {})
           /\ o.kind = "reject"
                => /\ ~r.ok
                   /\ r.error.status = 0
                   /\ r.error.message = NetworkError(o.message)]_vars

\* C29: isLoading is true whenever an exchange is pending, that is while a
\* message is streaming or an HTTP request is outstanding, also after a
\* stale chat_complete or chat_error and after the HTTP fallback finished
\* while the placeholder is still streaming.
C29_LoadingWhilePending ==
  (Streaming(messages) # {} \/ httpPending > 0) => isLoading

StreamingChosen ==
  IF upload.phase = "uploading" THEN upload.cap.useStreaming ELSE useStreaming

\* C31: an accepted submission whose uploads succeeded sends exactly one
\* outbound chat request: a socket emit when streaming is enabled and the
\* emit succeeds, otherwise one HTTP call; never both, never none, and no
\* socket emit when streaming mode is disabled.
C31_ExactlyOneRequest ==
  [][last'.op = "send" =>
       /\ Len(outbox') = Len(outbox) + 1
       /\ SubSeq(outbox', 1, Len(outbox)) = outbox
       /\ LET req == outbox'[Len(outbox')]
          IN  /\ req.chan = "socket" <=> last'.ev = "emit"
              /\ req.chan = "socket" => StreamingChosen /\ connected
              /\ (StreamingChosen /\ last'.ev # "emitThrows" /\ last'.ev # "http")
                   => req.chan = "socket"
              /\ req.chan \in {"socket", "http"}
              /\ httpPending' = httpPending + (IF req.chan = "http" THEN 1 ELSE 0)]_vars

\* A submission with an uploaded file went out as one HTTP request because
\* the emit threw.
C31_Witness ==
  /\ last.op = "send"
  /\ last.ev = "emitThrows"
  /\ Len(outbox) = 1
  /\ outbox[1].chan = "http"
  /\ Len(messages[1].files) > 0

\* Arguments the send methods of the socket service are called with.
ArgMessages == {<<>>, <<ApiMessage(<<"h">>)>>}
ArgUrls == {<<>>, << <<"url", 1>> >>}
ArgModels == {TextModel, VisionModel, Missing}

\* C32: sendChatRequest and sendMultimodalChatRequest of the socket service
\* emit exactly one event ('chat_request', respectively
\* 'multimodal_chat_request') with the given messages, fileUrls and model
\* when the service is connected; when it is not they emit nothing, throw
\* 'Socket not connected' and leave the connection state as it was.
C32_SendMethods ==
  /\ [](\A msgs \in ArgMessages, urls \in ArgUrls, model \in ArgModels :
          LET a == socketService_sendChatRequest(Svc, msgs, model)
              b == socketService_sendMultimodalChatRequest(Svc, msgs, urls, model)
          IN  /\ a.svc = Svc
              /\ b.svc = Svc
              /\ connected =>
                   /\ a.emitted = <<[chan |-> "socket", event |-> "chat_request",
                                     messages |-> msgs, fileUrls |-> <<>>,
                                     model |-> model]>>
                   /\ b.emitted = <<[chan |-> "socket",
                                     event |-> "multimodal_chat_request",
                                     messages |-> msgs, fileUrls |-> urls,
                                     model |-> model]>>
                   /\ a.thrown = NULL
                   /\ b.thrown = NULL
              /\ ~connected =>
                   /\ a.emitted = <<>>
                   /\ b.emitted = <<>>
                   /\ a.thrown = NotConnected
                   /\ b.thrown = NotConnected)
  /\ [][(last'.op = "send" /\ last'.ev # "http") =>
          /\ svcVars' = svcVars
          /\ Len(outbox') = Len(outbox) + 1
          /\ connected =>
               /\ last'.ev = "emit"
               /\ outbox'[Len(outbox')].chan = "socket"
               /\ outbox'[Len(outbox')].event \in {"chat_request", "multimodal_chat_request"}
          /\ ~connected =>
               /\ last'.ev = "emitThrows"
               /\ outbox'[Len(outbox')].chan = "http"]_vars

\* A send method was called on a service that is not connected: it threw
\* and the text went out over HTTP.
C32_Witness ==
  /\ last.op = "send"
  /\ last.ev = "emitThrows"
  /\ ~connected
  /\ messages[1].files = <<>>
  /\ outbox[Len(outbox)].chan = "http"

\* C33: each return of the non-streaming request path appends exactly one
\* bot message, the response text on success or the 'Sorry, I encountered an
\* error: ...' bubble on failure (the error state is then set too), ends
\* with isLoading false, and modifies no message that was there before.
C33_FallbackAppendsOne ==
  [][last'.op = "http" =>
       LET r == last'.data
           new == messages'[Len(messages')]
           replied == r.ok /\ r.value.json # "null"
           failure == IF r.ok THEN NullRead ELSE r.error.message
       IN  /\ Len(messages') = Len(messages) + 1
           /\ SubSeq(messages', 1, Len(messages)) = messages
           /\ new.sender = "bot"
           /\ ~new.isStreaming
           /\ ~isLoading'
           /\ replied => new.text = r.value.response /\ error' = error
           /\ ~replied => /\ new.text = ErrPrefix \o failure
                          /\ error' = failure
                          /\ error' # NULL]_vars

\* The fallback of a failed emit ended in an error while the placeholder of
\* that submission is still streaming.
C33_Witness ==
  /\ last.op = "http"
  /\ ~last.data.ok
  /\ Len(messages) = 3
  /\ messages[2].isStreaming
  /\ messages[3].text = ErrPrefix \o last.data.error.message

\* C34: the reconnect delay scheduled on an involuntary drop is
\* 1000 * min(reconnectAttempts + 1, 5) milliseconds, at least 1000, at most
\* 5000 and not decreasing as reconnectAttempts grows; the counter is
\* incremented when the timer fires, not when it is scheduled.
C34_ReconnectDelay ==
  /\ [](\A a, b \in 0..MaxAttempts :
          /\ reconnectDelay(a) >= 1000
          /\ reconnectDelay(a) <= 5000
          /\ a <= b => reconnectDelay(a) <= reconnectDelay(b))
  /\ [][/\ (last'.op = "drop" /\ Len(timers') > Len(timers)) =>
             /\ timers' = Append(timers,
                                 1000 * (IF reconnectAttempts + 1 < 5
                                         THEN reconnectAttempts + 1 ELSE 5))
             /\ reconnectAttempts' = reconnectAttempts
        /\ last'.op = "timer" =>
             /\ reconnectAttempts' = reconnectAttempts + 1
             /\ Len(timers') = Len(timers) - 1]_vars

\* A drop after two fired timers scheduled a reconnect three seconds ahead.
C34_Witness ==
  /\ last.op = "drop"
  /\ reconnectAttempts = 2
  /\ Len(timers) > 0
  /\ timers[Len(timers)] = 3000

RECURSIVE ImagesOf(_)
ImagesOf(items) ==
  IF items = <<>> THEN <<>>
  ELSE (IF Head(items).type = "image" THEN <<Head(items).id>> ELSE <<>>)
       \o ImagesOf(Tail(items))

\* C35: the attachments of the user message, and the URLs in fileUrls of
\* the outbound request, are in the order in which the files were selected,
\* whatever order the uploads completed in.
C35_SelectionOrderKept ==
  [][(last'.op = "send" /\ upload.phase = "uploading") =>
       LET selected == upload.cap.selectedFiles
           sent == messages'[Len(messages)+1].files
           req == outbox'[Len(outbox')]
       IN  /\ [k \in DOMAIN sent |-> sent[k].id] = [k \in DOMAIN selected |-> selected[k].id]
           /\ req.chan = "socket" =>
                req.fileUrls = [k \in DOMAIN ImagesOf(selected) |->
                                  <<"url", ImagesOf(selected)[k]>>]]_vars

\* The content of a user turn of request req is not empty: a text that is
\* not '', or for a multimodal request a list of parts that is not empty and
\* whose text parts are not ''.
NonEmptyContent(req, content) ==
  IF req.model = VisionModel
  THEN /\ Len(content) > 0
       /\ \A k \in DOMAIN content : content[k].val # NULL
  ELSE content # NULL

\* C36: every outbound chat request, on the socket or over HTTP, carries a
\* messages list that is not empty and whose user turn has content that is
\* not empty, also for a submission with no text and only documents attached.
C36_RequestNeverEmpty ==
  \A k \in DOMAIN outbox :
    /\ Len(outbox[k].messages) > 0
    /\ \A m \in DOMAIN outbox[k].messages :
         NonEmptyContent(outbox[k], outbox[k].messages[m].content)

====
